---------------------------- MODULE Spec2Model ----------------------------
(***************************************************************************)
(* feedbackforge Python SDK: the concurrent batch engine (process_batch /  *)
(* process_documents in the four variants of the SDK), the retry helper    *)
(* (forge/utils.py and sdk_0.py), the cron registration (schedule_job,     *)
(* create_cron_job) and the construction of Config.                        *)
(*                                                                         *)
(* The four batch implementations are told apart by the value of impl:     *)
(*   "production-sdk"      src/sdk/python/production-sdk.py                *)
(*   "production-sdk (1)"  src/sdk/python/production-sdk (1).py            *)
(*   "production-sdk (2)"  src/sdk/python/production-sdk (2).py            *)
(*   "sdk_0"               src/sdk/python/sdk_0.py                         *)
(***************************************************************************)
EXTENDS Integers, Sequences, FiniteSets, TLC

(***************************************************************************)
(* Bounds of the model.                                                    *)
(***************************************************************************)
MaxUrls == 3

MaxWorkers == 2

MaxRetries == 3

MaxDelay == 2

MaxClock == 3

\* the longest crontab create_cron_job is still called on
MaxEntries == 4

\* scheduler objects made in one run
MaxSchedulers == 2

\* schedule_job calls made in one run
MaxCalls == 2

(***************************************************************************)
(* Program constants.                                                      *)
(***************************************************************************)
\* backoff.on_exception(..., max_tries=3) on process_document
max_tries == 3

\* ... max_time=30: no further try once 30 s have passed since the first
max_time == 30

\* retry(func, retries=3, delay=2) as call_process uses it: retry(make_request)
DefaultRetries == 3

DefaultDelay == 2

VARIABLES
    impl,        \* which file's batch function is executing ("none" before the call)
    urls,        \* the urls argument
    max_workers, \* the executor's worker limit: the max_workers argument, in
                 \* sdk_0.py (which has none) the library's default
    pc,          \* position of the calling thread
    nsub,        \* number of executor.submit calls made so far
    fut,         \* fut[i]: the future of urls[i] and the worker running it
    collected,   \* futures the result loop has already consumed
    results,     \* the results list
    completed,   \* the completed counter
    raised,      \* the exception leaving the batch function (NoExc if none)
    clock,       \* the time datetime.now() reads
    netcalls,    \* transport calls (session.post / requests.post) started
    progress_callback, \* production-sdk.py: was a progress_callback passed
    notified,    \* the progress_callback invocations made, as <<completed, total>>
    collect_order, \* the items in the order the result loop consumed their futures
    transport,   \* per url, what POST /process does when the answer depends on the url only
    endpoint,    \* config.get("API_ENDPOINT") of the loaded module
    rt,          \* retry(): the state of one call of the helper
    trace,       \* retry(): the func calls and sleeps made, in order
    crontab,     \* the user's crontab as the cron daemon has it (persisted)
    scheduler,   \* the DocumentProcessingScheduler object in use
    last_call,   \* the last schedule_job / create_cron_job call and its outcome
    registered,  \* per comment, the entry of the last call that returned
    any_failed,  \* some schedule_job / create_cron_job call has raised
    cfgenv,      \* Config: the module, the config_path argument, file and environment
    config,      \* Config: the outcome of the construction
    authenv,     \* authenticate: the module, GCP_JSON_KEY_PATH and the file it names
    auth         \* authenticate: the outcome of the call

bvars == <<impl, urls, max_workers, pc, nsub, fut, collected, results,
           completed, raised, clock, netcalls, endpoint, progress_callback,
           notified, collect_order, transport>>

pvars == <<progress_callback, notified>>

hvars == <<collect_order, transport>>

rvars == <<rt, trace>>

svars == <<crontab, scheduler, last_call, registered, any_failed>>

cvars == <<cfgenv, config>>

avars == <<authenv, auth>>

vars == <<impl, urls, max_workers, pc, nsub, fut, collected, results,
          completed, raised, clock, netcalls, endpoint, progress_callback,
          notified, collect_order, transport, rt, trace, crontab, scheduler,
          last_call, registered, any_failed, cfgenv, config, authenv, auth>>

Impls == {"production-sdk", "production-sdk (1)", "production-sdk (2)", "sdk_0"}

(***************************************************************************)
(* Exceptions.  An exception is a record of its class and its message;     *)
(* call is the number of the func call that raised it (0 when it was not   *)
(* raised by a retried func).                                              *)
(***************************************************************************)
Exc(type, msg) == [type |-> type, msg |-> msg, call |-> 0]

NoExc == Exc("none", "")

\* requests.exceptions.RequestException and its subclasses (JSONDecodeError is
\* one of them in the requests releases setup.py's unpinned "requests" installs)
IsRequestException(e) ==
    e.type \in {"RequestException", "ConnectionError", "HTTPError", "JSONDecodeError"}

IsAPIError(e) == e.type = "APIError"

\* every class the model raises derives from Exception
IsException(e) == e.type # "none"

(***************************************************************************)
(* The transport: what one POST /process does.                             *)
(*   ok_completed  2xx, body {"status": "completed", "metadata": {...}}    *)
(*   ok_nostatus   2xx, body {}                                            *)
(*   ok_failed     2xx, body {"status": "failed", "metadata": {...}}       *)
(*   nondict       2xx, body is JSON but not an object (a list, null)      *)
(*   network       the connection fails (ConnectionError)                  *)
(*   http4xx       raise_for_status() raises HTTPError, status 4xx         *)
(*   http5xx       raise_for_status() raises HTTPError, status 5xx         *)
(*   undecodable   response.json() raises JSONDecodeError                  *)
(***************************************************************************)
TransportOutcomes ==
    {"ok_completed", "ok_nostatus", "ok_failed", "nondict",
     "network", "http4xx", "http5xx", "undecodable"}

\* the outcomes the batch specification draws from: one per code path of
\* process_document (every RequestException subclass takes the same path)
BatchOutcomes == {"ok_completed", "ok_nostatus", "ok_failed", "nondict", "http5xx"}

IsJson(o) == o \in {"ok_completed", "ok_nostatus", "ok_failed", "nondict"}

\* the exception session.post / raise_for_status / response.json raises
TransportExc(o) ==
    CASE o = "network"     -> Exc("ConnectionError", "connection failed")
      [] o = "http4xx"     -> Exc("HTTPError", "4xx Client Error")
      [] o = "http5xx"     -> Exc("HTTPError", "5xx Server Error")
      [] o = "undecodable" -> Exc("JSONDecodeError", "Expecting value")
      [] OTHER             -> NoExc

\* data.get('status', 'completed')
BodyStatus(o) ==
    CASE o = "ok_completed" -> "completed"
      [] o = "ok_nostatus"  -> "completed"
      [] o = "ok_failed"    -> "failed"

\* data.get('metadata')
BodyMetadata(o) ==
    CASE o = "ok_completed" -> "meta"
      [] o = "ok_nostatus"  -> "None"
      [] o = "ok_failed"    -> "meta"

(***************************************************************************)
(* ProcessingResult and the outcome of a call: a value or an exception.    *)
(***************************************************************************)
ProcessingResult(url, status, processed_at, metadata, error) ==
    [url |-> url, status |-> status, processed_at |-> processed_at,
     metadata |-> metadata, error |-> error]

NoResult == ProcessingResult("", "", 0, "None", "None")

Returned(r) == [kind |-> "returned", value |-> r, exc |-> NoExc]

Raised(e) == [kind |-> "raised", value |-> NoResult, exc |-> e]


(***************************************************************************)
(* retry(func, retries, delay): forge/utils.py and sdk_0.py.               *)
(* A retry state is the local state of one call of retry: attempt is the   *)
(* loop variable of the next iteration, calls the number of func calls     *)
(* made, sleeps the durations slept, in order.                             *)
(***************************************************************************)
RECURSIVE Pow2(_)
Pow2(n) == IF n <= 0 THEN 1 ELSE 2 * Pow2(n - 1)

RetryImpls == {"forge/utils", "sdk_0"}

RetryIdle ==
    [impl |-> "none", retries |-> 0, delay |-> 0, attempt |-> 0, calls |-> 0,
     sleeps |-> <<>>, status |-> "idle", value |-> "None", exc |-> NoExc]

\* the variant with one iteration too many: range(retries + 1)
RetryLoopDoneOffByOne(st) == st.attempt > st.retries

\* for attempt in range(retries): no iteration is left
RetryLoopDone(st) == st.attempt >= st.retries

\* what follows the loop once no iteration is left
\*   forge/utils.py: the function body ends, retry returns None
\*   sdk_0.py:       raise Exception(f"All {retries} retries failed.")
RetryLoopExit(st) ==
    IF st.status = "running" /\ RetryLoopDone(st)
    THEN IF st.impl = "sdk_0"
         THEN [st EXCEPT !.status = "raised",
                         !.exc = Exc("Exception", "All retries failed.")]
         ELSE [st EXCEPT !.status = "returned", !.value = "None"]
    ELSE st

\* retry is called: the loop starts at attempt 0
RetryEnter(i, retries, delay) ==
    RetryLoopExit([RetryIdle EXCEPT !.impl = i, !.retries = retries,
                                    !.delay = delay, !.status = "running"])

\* forge/utils.py: except Exception as e: if attempt == retries - 1: raise e
RetryIsLastAttempt(st) == st.attempt = st.retries - 1

\* the variant without backoff: sleep(delay)
RetrySleepConstant(st) == st.delay

\* sleep(delay * (2 ** attempt))
RetrySleep(st) == st.delay * Pow2(st.attempt)

\* the variant that keeps the value and goes on looping (result = func())
RetryReturnKeepsLooping(st, v) ==
    IF st.attempt + 1 >= st.retries
    THEN [st EXCEPT !.status = "returned", !.value = v]
    ELSE [st EXCEPT !.value = v, !.attempt = @ + 1]

\* return func(): the value of the call leaves retry at once
RetryReturn(st, v) == [st EXCEPT !.status = "returned", !.value = v]

\* the variant that raises a new, generic exception (as sdk_0.py does)
RetryRaiseGeneric(st, e) ==
    [st EXCEPT !.status = "raised", !.exc = Exc("Exception", "All retries failed.")]

\* forge/utils.py: raise e
RetryReraise(st, e) == [st EXCEPT !.status = "raised", !.exc = e]

\* one iteration of the loop: func is called and returns (ok) value v or
\* raises e; then the except clause, up to the sleep it enters.  retry stays
\* running while it sleeps: after the sleep comes the next iteration or, when
\* none is left, the end of the loop (RetrySleepOver)
RetryIteration(st, ok, v, e) ==
    LET called == [st EXCEPT !.calls = @ + 1] IN
    IF ok
    THEN RetryReturn(called, v)
    ELSE IF st.impl = "forge/utils" /\ RetryIsLastAttempt(st)
         THEN RetryReraise(called, e)
         ELSE [called EXCEPT !.sleeps = Append(@, RetrySleep(st)),
                             !.attempt = @ + 1]

\* retry has another iteration to make: func can be called
RetryCanCall(st) == st.status = "running" /\ ~RetryLoopDone(st)

\* retry is in the sleep of its last iteration (sdk_0.py sleeps after every
\* failed call, the last one included)
RetryInLastSleep(st) == st.status = "running" /\ RetryLoopDone(st)

\* the sleep of the last iteration is over: the loop is left
RetrySleepOver(st) == RetryLoopExit(st)

(***************************************************************************)
(* process_document: one item, given what the transport does (o) and the   *)
(* reading of datetime.now() (now).                                        *)
(***************************************************************************)
\* production-sdk (2).py, APIClient.post: a RequestException becomes APIError;
\* the decoded body is returned whatever its type
post_2(o) ==
    IF IsJson(o)
    THEN Returned([body |-> o])
    ELSE Raised(Exc("APIError", "API request failed: " \o TransportExc(o).msg))

\* production-sdk (2).py: APIError is logged and raised again; data.get on a
\* body that is no dict raises AttributeError
process_document_2(url, o, now) ==
    LET data == post_2(o) IN
    IF data.kind = "raised" THEN data
    ELSE IF o = "nondict"
         THEN Raised(Exc("AttributeError", "'list' object has no attribute 'get'"))
         ELSE Returned(ProcessingResult(url, BodyStatus(o), now, BodyMetadata(o), "None"))

\* production-sdk (1).py: a RequestException becomes APIError
process_document_1(url, o, now) ==
    IF ~IsJson(o)
    THEN Raised(Exc("APIError", "Failed to process document: " \o TransportExc(o).msg))
    ELSE IF o = "nondict"
         THEN Raised(Exc("AttributeError", "'list' object has no attribute 'get'"))
         ELSE Returned(ProcessingResult(url, BodyStatus(o), now, BodyMetadata(o), "None"))

\* production-sdk.py, the decorated function's body: a RequestException is
\* caught and reported as a 'failed' ProcessingResult
process_document_0(url, o, now) ==
    IF ~IsJson(o)
    THEN Returned(ProcessingResult(url, "failed", now, "None", TransportExc(o).msg))
    ELSE IF o = "nondict"
         THEN Raised(Exc("AttributeError", "'list' object has no attribute 'get'"))
         ELSE Returned(ProcessingResult(url, BodyStatus(o), now, BodyMetadata(o), "None"))

\* the seconds that can have passed since the first try when a try ends:
\* less than max_time, or max_time and more
ElapsedTimes == {0, max_time}

\* production-sdk.py, @backoff.on_exception(backoff.expo, (RequestException,
\* APIError), max_tries=3, max_time=30): call again when the body raised one
\* of these classes, fewer than max_tries calls were made and fewer than
\* max_time seconds have passed since the first try
backoff_retries(out, tries, elapsed) ==
    /\ out.kind = "raised"
    /\ IsRequestException(out.exc) \/ IsAPIError(out.exc)
    /\ tries < max_tries
    /\ elapsed < max_time

\* sdk_0.py, make_request: raise_for_status, then response.json() as it is
make_request(o) ==
    IF IsJson(o) THEN Returned([body |-> o]) ELSE Raised(TransportExc(o))

process_document(i, url, o, now) ==
    CASE i = "production-sdk"     -> process_document_0(url, o, now)
      [] i = "production-sdk (1)" -> process_document_1(url, o, now)
      [] i = "production-sdk (2)" -> process_document_2(url, o, now)

(***************************************************************************)
(* The cron registration.  crontab is the user's crontab as the cron       *)
(* daemon holds it.  A CronTab object (python-crontab) is a copy of it,    *)
(* read when the object is constructed, changed in memory by remove, new   *)
(* and setall, and put back as a whole by write().  A schedule is the      *)
(* sequence of the fields of the cadence expression.                       *)
(***************************************************************************)
\* schedule_job's default comment, and the one more comment tried
DefaultComment == "Document Processing Job"

Comments == {DefaultComment, "Nightly Job"}

\* the comment create_cron_job gives every job
Sdk0Comment == "Process Documents Cron Job"

AllComments == Comments \cup {Sdk0Comment}

ScriptPaths == {"dummy_script.py", "main.py"}

\* "0 18 * * *" (the default) and "*/5 * * * *"
Schedules == {<<"0", "18", "*", "*", "*">>, <<"*/5", "*", "*", "*", "*">>}

\* "invalid_schedule" (tests/test_cron.py) and "61 * * * *"
RejectedSchedules == {<<"invalid_schedule">>, <<"61", "*", "*", "*", "*">>}

\* the time fields of a job made by cron.new(): every field is '*'
EveryMinute == <<"*", "*", "*", "*", "*">>

CronEntry(schedule, command, comment) ==
    [schedule |-> schedule, command |-> command, comment |-> comment]

NoEntry == CronEntry(<<>>, "", "")

\* self.cron.find_comment(comment): the jobs (positions) of the CronTab whose
\* comment is comment; the library iterates over a copy of its job list, so
\* removing the jobs found while iterating finds them all
find_comment(cron, comment) == {k \in DOMAIN cron : cron[k].comment = comment}

\* for job in existing_jobs: self.cron.remove(job)
remove(cron, jobs) ==
    LET rest[n \in 0..Len(cron)] ==
            IF n = 0 THEN <<>>
            ELSE IF n \in jobs THEN rest[n - 1] ELSE Append(rest[n - 1], cron[n])
    IN  rest[Len(cron)]

\* f"python {self.script_path}"
Command(script_path) == "python " \o script_path

\* self.cron.new(command=..., comment=comment): the job is appended to the
\* CronTab at once, with every time field '*'
new(cron, command, comment) == Append(cron, CronEntry(EveryMinute, command, comment))

\* job.setall(schedule) takes a cadence of five fields, each in the range of
\* its position; otherwise it raises ValueError and the fields stay '*'
setall_accepts(schedule) ==
    /\ Len(schedule) = Len(EveryMinute)
    /\ schedule[1] \in {"*", "0", "*/5"}
    /\ schedule[2] \in {"*", "18"}
    /\ \A k \in 3..Len(schedule) : schedule[k] = "*"

setall(cron, schedule) == [cron EXCEPT ![Len(cron)].schedule = schedule]

setall_error == Exc("ValueError", "invalid cadence")

\* the outcome of a registration: the CronTab object's jobs after it, whether
\* write() was reached, and the exception raised (NoExc if it returned)
Registration(cron, written, exc) == [cron |-> cron, written |-> written, exc |-> exc]

\* the variant that raises the base class (as production-sdk.py does)
schedule_job_error_base(i, e) ==
    Exc("SDKException", "Failed to schedule job: " \o e.msg)

\* schedule_job, except Exception as e:
\*   production-sdk (2).py: raise SchedulingError(f"Failed to schedule job: {str(e)}", e)
\*   production-sdk.py:     raise SDKException(f"Failed to schedule job: {str(e)}")
schedule_job_error(i, e) ==
    IF i = "production-sdk (2)"
    THEN Exc("SchedulingError", "Failed to schedule job: " \o e.msg)
    ELSE Exc("SDKException", "Failed to schedule job: " \o e.msg)

\* schedule_job(schedule, comment) of production-sdk.py and production-sdk
\* (2).py on a scheduler whose CronTab holds cron: the jobs with the comment
\* are removed, the new job is appended, setall sets its cadence or raises,
\* and only after that write() is called
schedule_job(i, script_path, cron, schedule, comment) ==
    LET cleared == remove(cron, find_comment(cron, comment))
        created == new(cleared, Command(script_path), comment)
    IN  IF setall_accepts(schedule)
        THEN Registration(setall(created, schedule), TRUE, NoExc)
        ELSE Registration(created, FALSE, schedule_job_error(i, setall_error))

\* sdk_0.py, create_cron_job(script_path, schedule): a CronTab is read, the
\* new job is appended to it, setall, write(); nothing catches what setall
\* raises
create_cron_job(cron, script_path, schedule) ==
    LET created == new(cron, Command(script_path), Sdk0Comment) IN
    IF setall_accepts(schedule)
    THEN Registration(setall(created, schedule), TRUE, NoExc)
    ELSE Registration(created, FALSE, setall_error)

\* what CronTab(user=True) raises when the user's crontab cannot be read
CronTabUnreadable == Exc("OSError", "crontab: cannot read")

\* DocumentProcessingScheduler.__init__ when CronTab(user=True) raises e:
\*   production-sdk (2).py: raise SchedulingError("Failed to initialize scheduler", e)
\*   production-sdk.py:     nothing catches e
scheduler_init_error(i, e) ==
    IF i = "production-sdk (2)"
    THEN Exc("SchedulingError", "Failed to initialize scheduler")
    ELSE e

\* a DocumentProcessingScheduler object: its script_path, the jobs of its
\* own CronTab (self.cron), and its history: the comments whose last
\* schedule_job call on it raised
SchedulerObject(script_path, cron) ==
    [script_path |-> script_path, cron |-> cron, failed |-> {}]

\* no scheduler object was made
NoScheduler == <<>>

\* obj is the scheduler object the call was made on (0: none), n the number
\* of schedule_job calls made so far
NoCall ==
    [op |-> "none", obj |-> 0, comment |-> "", schedule |-> <<>>, command |-> "",
     exc |-> NoExc, before |-> <<>>, n |-> 0]

\* entries a crontab holds before the SDK is used: another program's job, and
\* jobs an earlier run registered
OtherEntry == CronEntry(<<"0", "0", "*", "*", "*">>, "backup.sh", "backup")

OldEntry(comment) == CronEntry(<<"0", "18", "*", "*", "*">>, "python old.py", comment)

InitialCrontabs ==
    {<<>>,
     <<OtherEntry>>,
     <<OldEntry(DefaultComment), OtherEntry>>,
     <<OldEntry(DefaultComment), OtherEntry, OldEntry(DefaultComment)>>,
     <<OldEntry(Sdk0Comment)>>}

\* no scheduler was made and nothing was registered
SchedulerUnused ==
    /\ crontab = <<>>
    /\ scheduler = NoScheduler
    /\ last_call = NoCall
    /\ registered = [c \in AllComments |-> NoEntry]
    /\ any_failed = FALSE

(***************************************************************************)
(* Config(config_path): forge/config.py, production-sdk.py and             *)
(* production-sdk (2).py.  The inputs are the file at the path used (the   *)
(* argument, or env.yaml next to the module when the argument is None)     *)
(* and the environment variables.                                          *)
(***************************************************************************)
ConfigModules == {"forge/config", "production-sdk", "production-sdk (2)"}

ConfigPaths == {"None", "non_existent.yaml"}

\* a value of a key: the key is absent (os.getenv gives None), '' or a
\* non-empty string
KeyValues == {"unset", "empty", "set"}

Mapping(api_endpoint, api_key) ==
    [kind |-> "dict", API_ENDPOINT |-> api_endpoint, API_KEY |-> api_key]

\* an object that is no mapping: None, a str, a list
NonMapping(kind) == [kind |-> kind, API_ENDPOINT |-> "unset", API_KEY |-> "unset"]

\* the file at the path:
\*   missing     os.path.exists is False
\*   unreadable  it exists but open() raises (a directory, no permission)
\*   malformed   yaml.safe_load raises YAMLError
\*   empty       yaml.safe_load returns None
\*   scalar      yaml.safe_load returns a str
\*   list        yaml.safe_load returns a list
\*   dict        yaml.safe_load returns a mapping with these values
FileStates ==
    {NonMapping(k) : k \in {"missing", "unreadable", "malformed", "empty", "scalar", "list"}}
        \cup {Mapping(e, k) : e \in KeyValues, k \in KeyValues}

Environments == {Mapping(e, k) : e \in KeyValues, k \in KeyValues}

\* the outcome of a call of Config's methods: a value or an exception
ConfigValue(v) == [status |-> "returned", value |-> v, exc |-> NoExc]

ConfigRaised(e) == [status |-> "raised", value |-> NonMapping("None"), exc |-> e]

NotConstructed == [status |-> "none", value |-> NonMapping("None"), exc |-> NoExc]

\* yaml.safe_load(file)
safe_load(file) ==
    CASE file.kind = "malformed" -> ConfigRaised(Exc("YAMLError", "could not parse"))
      [] file.kind = "empty"     -> ConfigValue(NonMapping("None"))
      [] file.kind = "scalar"    -> ConfigValue(NonMapping("str"))
      [] file.kind = "list"      -> ConfigValue(NonMapping("list"))
      [] file.kind = "dict"      -> ConfigValue(file)

\* the statements of _load_config: the file if it exists, else the
\* environment variables
load_config_body(file, env) ==
    CASE file.kind = "missing"    -> ConfigValue(env)
      [] file.kind = "unreadable" -> ConfigRaised(Exc("OSError", "cannot open"))
      [] OTHER                    -> safe_load(file)

\* forge/config.py and production-sdk (2).py wrap them in
\* try: ... except Exception as e: raise ConfigurationError(...);
\* production-sdk.py does not
load_config_catches(m) == m \in {"forge/config", "production-sdk (2)"}

load_config(m, file, env) ==
    LET out == load_config_body(file, env) IN
    IF out.status = "raised" /\ load_config_catches(m)
    THEN ConfigRaised(Exc("ConfigurationError", "Failed to load configuration"))
    ELSE out

\* not self.config.get(field): the key is absent, None or ''
IsMissing(v) == v \in {"unset", "empty"}

\* _validate_config: self.config.get raises AttributeError when the loaded
\* object is no mapping
validate_config(loaded) ==
    IF loaded.kind # "dict"
    THEN ConfigRaised(Exc("AttributeError", "object has no attribute 'get'"))
    ELSE IF IsMissing(loaded.API_ENDPOINT) \/ IsMissing(loaded.API_KEY)
         THEN ConfigRaised(Exc("ConfigurationError", "Missing required configuration"))
         ELSE ConfigValue(loaded)

\* Config.__init__: self.config = self._load_config(); self._validate_config()
Config_init(m, file, env) ==
    LET loaded == load_config(m, file, env) IN
    IF loaded.status = "raised" THEN loaded ELSE validate_config(loaded.value)

NoConfigEnv ==
    [module |-> "none", config_path |-> "None", file |-> NonMapping("missing"),
     env |-> Mapping("unset", "unset")]

\* no Config was constructed
ConfigUnused ==
    /\ cfgenv = NoConfigEnv
    /\ config = NotConstructed

(***************************************************************************)
(* authenticate: forge/auth.py, production-sdk.py, production-sdk (2).py   *)
(* and sdk_0.py.  The inputs are the value of GCP_JSON_KEY_PATH in the     *)
(* configuration and the file it names.                                    *)
(***************************************************************************)
AuthModules == {"forge/auth", "production-sdk", "production-sdk (2)", "sdk_0"}

\* config.get("GCP_JSON_KEY_PATH"): None, '' or a path
KeyPathValues == {"unset", "empty", "set"}

\* the file at the path:
\*   missing      os.path.exists is False
\*   unreadable   it exists but open() raises (a directory, no permission)
\*   malformed    json.load raises JSONDecodeError
\*   json_dict    json.load returns a dict
\*   json_list    json.load returns a list
\*   json_scalar  json.load returns a number, a string, a boolean or None
KeyFileStates ==
    {"missing", "unreadable", "malformed", "json_dict", "json_list", "json_scalar"}

\* the outcome of authenticate: a value or an exception, and how many times
\* the key file was opened
AuthReturned(v, opens) == [status |-> "returned", value |-> v, exc |-> NoExc, opens |-> opens]

AuthRaised(e, opens) == [status |-> "raised", value |-> "None", exc |-> e, opens |-> opens]

NotAuthenticated == [status |-> "none", value |-> "None", exc |-> NoExc, opens |-> 0]

\* forge/auth.py imports json and AuthenticationError only: the name os is
\* not defined in that module
ImportsOs(m) == m # "forge/auth"

KeyFileNotFound == Exc("AuthenticationError", "GCP JSON key file not found")

\* if not json_key_path or not os.path.exists(json_key_path):
\*     raise AuthenticationError(...)
\* the exception this statement ends with, NoExc when the file is there; the
\* right operand is evaluated only for a non-empty path
key_file_check(m, key_path, file) ==
    IF key_path \in {"unset", "empty"} THEN KeyFileNotFound
    ELSE IF ~ImportsOs(m) THEN Exc("NameError", "name 'os' is not defined")
    ELSE IF file = "missing" THEN KeyFileNotFound
    ELSE NoExc

\* with open(json_key_path, 'r') as f: json.load(f); the file is opened once
json_load(file) ==
    CASE file = "unreadable"  -> AuthRaised(Exc("OSError", "cannot open"), 1)
      [] file = "malformed"   -> AuthRaised(Exc("JSONDecodeError", "Expecting value"), 1)
      [] file = "json_dict"   -> AuthReturned("dict", 1)
      [] file = "json_list"   -> AuthReturned("list", 1)
      [] file = "json_scalar" -> AuthReturned("scalar", 1)

\* except AuthenticationError: raise
\* except Exception as e: raise AuthenticationError("Authentication failed", e)
auth_except(out) ==
    IF out.status = "raised" /\ out.exc.type # "AuthenticationError"
    THEN AuthRaised(Exc("AuthenticationError", "Authentication failed"), out.opens)
    ELSE out

\* forge/auth.py: the check and the load in one try; returns json.load(f)
authenticate_forge(key_path, file) ==
    LET chk == key_file_check("forge/auth", key_path, file) IN
    auth_except(IF chk # NoExc THEN AuthRaised(chk, 0) ELSE json_load(file))

\* production-sdk (2).py: the same try; json.load(f) is kept in
\* self._credentials and json_key_path is returned
authenticate_2(key_path, file) ==
    LET chk    == key_file_check("production-sdk (2)", key_path, file)
        loaded == json_load(file)
    IN  auth_except(IF chk # NoExc THEN AuthRaised(chk, 0)
                    ELSE IF loaded.status = "raised" THEN loaded
                    ELSE AuthReturned("path", loaded.opens))

\* production-sdk.py: the check stands before the try; the try holds the load
authenticate_0(key_path, file) ==
    LET chk    == key_file_check("production-sdk", key_path, file)
        loaded == json_load(file)
    IN  IF chk # NoExc THEN AuthRaised(chk, 0)
        ELSE IF loaded.status = "raised"
             THEN AuthRaised(Exc("AuthenticationError",
                                 "Authentication failed: " \o loaded.exc.msg),
                             loaded.opens)
             ELSE AuthReturned("path", loaded.opens)

\* sdk_0.py: if not os.path.exists(json_key_path): raise FileNotFoundError;
\* return json_key_path -- os.path.exists(None) raises TypeError, the file is
\* not opened
authenticate_s0(key_path, file) ==
    IF key_path = "unset"
    THEN AuthRaised(Exc("TypeError", "stat: path should be string, not NoneType"), 0)
    ELSE IF key_path = "empty" \/ file = "missing"
         THEN AuthRaised(Exc("FileNotFoundError", "GCP JSON key file not found"), 0)
         ELSE AuthReturned("path", 0)

authenticate(m, key_path, file) ==
    CASE m = "forge/auth"         -> authenticate_forge(key_path, file)
      [] m = "production-sdk"     -> authenticate_0(key_path, file)
      [] m = "production-sdk (2)" -> authenticate_2(key_path, file)
      [] m = "sdk_0"              -> authenticate_s0(key_path, file)

NoAuthEnv == [module |-> "none", key_path |-> "unset", file |-> "missing"]

\* authenticate was not called
AuthUnused ==
    /\ authenv = NoAuthEnv
    /\ auth = NotAuthenticated

(***************************************************************************)
(* The batch: ThreadPoolExecutor, the submitted futures, the result loop.  *)
(***************************************************************************)
\* The url lists tried: the code hands a url on and never looks into it, so
\* one list per length is enough; from the third position on the list repeats
\* a url, which makes a duplicate url a case of every check
DocAt(i) == IF i % 3 = 2 THEN "doc2" ELSE "doc1"

UrlLists == {[i \in 1..n |-> DocAt(i)] : n \in 0..MaxUrls}

Pending == [kind |-> "pending", value |-> NoResult, exc |-> NoExc]

\* done_at is the time at which the worker's call ended
NewFuture ==
    [state |-> "none", out |-> Pending, tries |-> 0, r |-> RetryIdle, done_at |-> 0]

Items == 1..Len(urls)

InState(st) == {i \in Items : fut[i].state = st}

\* the numbers of CPUs of the machines tried
CpuCounts == {1, 4}

\* ThreadPoolExecutor() without max_workers: min(32, os.cpu_count() + 4)
executor_max_workers(cpus) == IF cpus + 4 < 32 THEN cpus + 4 ELSE 32

\* the worker limits an executor of implementation i can be made with:
\* any max_workers argument; in sdk_0.py the default of the machine
WorkerLimits(i) ==
    IF i = "sdk_0"
    THEN {executor_max_workers(cpus) : cpus \in CpuCounts}
    ELSE 1..MaxWorkers

\* the variant that forgets the argument: ThreadPoolExecutor() on one CPU
PoolLimitDefault(i, mw) == executor_max_workers(1)

\* the executor's worker limit: ThreadPoolExecutor(max_workers=max_workers),
\* and in sdk_0.py the limit ThreadPoolExecutor() was made with
PoolLimit(i, mw) == mw

\* the variant without the input check (as in production-sdk.py)
ValidatesInputNever(i) == FALSE

\* process_batch of production-sdk (2).py starts with: if not urls: raise
ValidatesInput(i) == i = "production-sdk (2)"

UsesAsCompleted(i) == i # "sdk_0"

Urls == {DocAt(i) : i \in 1..MaxUrls}

\* the answer does not depend on the url alone: every POST is drawn anew
NoTransport == [u \in Urls |-> "any"]

\* no batch was started
BatchIdle ==
    /\ urls = <<>>
    /\ max_workers = 0
    /\ pc = "idle"
    /\ nsub = 0
    /\ fut = <<>>
    /\ collected = {}
    /\ results = <<>>
    /\ completed = 0
    /\ raised = NoExc
    /\ clock = 0
    /\ netcalls = 0
    /\ progress_callback = FALSE
    /\ notified = <<>>
    /\ collect_order = <<>>
    /\ transport = NoTransport

\* retry was not called
RetryNotCalled ==
    /\ rt = RetryIdle
    /\ trace = <<>>

Init ==
    /\ impl \in Impls
    /\ endpoint \in (IF impl = "sdk_0" THEN {"", "https://api"} ELSE {"https://api"})
    /\ BatchIdle
    /\ RetryNotCalled
    /\ SchedulerUnused
    /\ ConfigUnused
    /\ AuthUnused

\* only process_batch of production-sdk.py has the progress_callback parameter
HasProgressCallback(i) == i = "production-sdk"

\* process_batch(urls, max_workers, progress_callback) / process_documents(urls)
\* is called: the input check, results = [], completed = 0, the executor is
\* created
Call(us, mw, cb) ==
    /\ pc = "idle"
    /\ cb => HasProgressCallback(impl)
    /\ mw \in WorkerLimits(impl)
    /\ progress_callback' = cb
    /\ notified' = <<>>
    /\ urls' = us
    /\ max_workers' = mw
    /\ fut' = [i \in 1..Len(us) |-> NewFuture]
    /\ IF ValidatesInput(impl) /\ Len(us) = 0
       THEN /\ pc' = "done"
            /\ raised' = Exc("ValidationError", "No URLs provided for processing")
       ELSE /\ pc' = IF Len(us) = 0 THEN "exit" ELSE "submit"
            /\ raised' = raised
    /\ collect_order' = <<>>
    /\ UNCHANGED <<impl, endpoint, nsub, collected, results, completed, clock,
                   netcalls, transport, rvars, svars, cvars, avars>>

\* executor.submit(self.process_document, url) for the next url of the list;
\* after the last one the result loop starts
Submit ==
    /\ pc = "submit"
    /\ nsub < Len(urls)
    /\ fut' = [fut EXCEPT ![nsub + 1].state = "queued"]
    /\ nsub' = nsub + 1
    /\ pc' = IF nsub + 1 = Len(urls) THEN "collect" ELSE "submit"
    /\ UNCHANGED <<impl, endpoint, urls, max_workers, collected, results,
                   completed, raised, clock, netcalls, pvars, hvars, rvars,
                   svars, cvars, avars>>

\* sdk_0.py, call_process: if not endpoint: raise ValueError(...)
endpoint_missing(ep) ==
    ep = ""

\* a worker thread takes the oldest queued work item; there are never more
\* than max_workers worker threads.  In sdk_0.py the work item is
\* call_process, which checks the endpoint and enters retry(make_request)
WorkerStart(i) ==
    /\ pc \in {"submit", "collect", "exit"}
    /\ i \in InState("queued")
    /\ \A j \in InState("queued") : i <= j
    /\ Cardinality(InState("running")) < PoolLimit(impl, max_workers)
    /\ fut' = [fut EXCEPT ![i] =
                 IF impl = "sdk_0"
                 THEN IF endpoint_missing(endpoint)
                      THEN [@ EXCEPT !.state = "finished", !.done_at = clock,
                                     !.out = Raised(Exc("ValueError",
                                                "API endpoint is not configured."))]
                      ELSE [@ EXCEPT !.state = "running",
                                     !.r = RetryEnter("sdk_0", DefaultRetries, DefaultDelay)]
                 ELSE [@ EXCEPT !.state = "running"]]
    /\ UNCHANGED <<impl, endpoint, urls, max_workers, pc, nsub, collected, results,
                   completed, raised, clock, netcalls, pvars, hvars, rvars,
                   svars, cvars, avars>>

\* a worker that appends its own result to the shared list
worker_appends_result(out) ==
    IF out.kind = "returned" THEN <<out.value>> ELSE <<>>

\* what process_document adds to process_batch's results list: nothing.
\* results and completed are locals of process_batch; process_document only
\* returns its ProcessingResult (or raises), which the future keeps
worker_appends(out) ==
    <<>>

\* production-sdk*.py: the worker's process_document(url) makes its POST and
\* ends; the future holds the result or the exception
ProcessDocument(i, o) ==
    /\ impl # "sdk_0"
    /\ i \in InState("running")
    /\ \E elapsed \in ElapsedTimes :
       LET out == process_document(impl, urls[i], o, clock)
           again == /\ impl = "production-sdk"
                    /\ backoff_retries(out, fut[i].tries + 1, elapsed)
       IN  /\ fut' = [fut EXCEPT ![i] =
                     IF again
                     THEN [@ EXCEPT !.tries = @ + 1]
                     ELSE [@ EXCEPT !.tries = @ + 1, !.state = "finished", !.done_at = clock, !.out = out]]
           /\ results' = results \o worker_appends(out)
    /\ netcalls' = netcalls + 1
    /\ UNCHANGED <<impl, endpoint, urls, max_workers, pc, nsub, collected,
                   completed, raised, clock, pvars, hvars, rvars,
                   svars, cvars, avars>>

\* sdk_0.py: one iteration of retry's loop inside the worker's call_process:
\* make_request posts once; the future is set when retry returns or raises
CallProcess(i, o) ==
    /\ impl = "sdk_0"
    /\ i \in InState("running")
    /\ RetryCanCall(fut[i].r)
    /\ LET req == make_request(o)
           r2  == RetryIteration(fut[i].r, req.kind = "returned", o,
                                 [req.exc EXCEPT !.call = fut[i].r.calls + 1])
       IN  fut' = [fut EXCEPT ![i] =
                     CASE r2.status = "returned" ->
                            [@ EXCEPT !.r = r2, !.state = "finished", !.done_at = clock,
                                      !.out = Returned([body |-> r2.value])]
                       [] r2.status = "raised" ->
                            [@ EXCEPT !.r = r2, !.state = "finished", !.done_at = clock,
                                      !.out = Raised(r2.exc)]
                       [] OTHER -> [@ EXCEPT !.r = r2]]
    /\ netcalls' = netcalls + 1
    /\ UNCHANGED <<impl, endpoint, urls, max_workers, pc, nsub, collected, results,
                   completed, raised, clock, pvars, hvars, rvars,
                   svars, cvars, avars>>

\* sdk_0.py: the worker's sleep after the last failed attempt is over: retry
\* raises Exception("All N retries failed."), which the future keeps
CallProcessSleepOver(i) ==
    /\ impl = "sdk_0"
    /\ i \in InState("running")
    /\ RetryInLastSleep(fut[i].r)
    /\ LET r2 == RetrySleepOver(fut[i].r)
       IN  fut' = [fut EXCEPT ![i] =
                     [@ EXCEPT !.r = r2, !.state = "finished", !.done_at = clock,
                               !.out = Raised(r2.exc)]]
    /\ UNCHANGED <<impl, endpoint, urls, max_workers, pc, nsub, collected, results,
                   completed, raised, clock, netcalls, pvars, hvars, rvars,
                   svars, cvars, avars>>

(***************************************************************************)
(* The body of the result loop for one future: what is appended to         *)
(* results (add: a list of no or one element), what is added to completed  *)
(* (inc), and the exception that leaves the loop (exc).                     *)
(***************************************************************************)
LoopStep(add, inc, exc) == [add |-> add, inc |-> inc, exc |-> exc]

\* the variant that catches APIError only (as in production-sdk (1).py)
loop_body_2_api_only(url, out, now) ==
    IF out.kind = "returned"
    THEN LoopStep(<<out.value>>, 1, NoExc)
    ELSE IF IsAPIError(out.exc)
         THEN LoopStep(<<ProcessingResult(url, "failed", now, "None", out.exc.msg)>>,
                       1, NoExc)
         ELSE LoopStep(<<>>, 0, out.exc)

\* the variant that does not look the url up in future_to_url: the 'failed'
\* result carries no url
loop_body_2_no_url(url, out, now) ==
    IF out.kind = "returned"
    THEN LoopStep(<<out.value>>, 1, NoExc)
    ELSE IF IsException(out.exc)
         THEN LoopStep(<<ProcessingResult("", "failed", now, "None", out.exc.msg)>>,
                       1, NoExc)
         ELSE LoopStep(<<>>, 0, out.exc)

\* production-sdk (2).py: try: results.append(future.result())
\* except Exception as e: results.append(ProcessingResult(url, 'failed', now, error=str(e)))
\* completed += 1
loop_body_2(url, out, now) ==
    IF out.kind = "returned"
    THEN LoopStep(<<out.value>>, 1, NoExc)
    ELSE IF IsException(out.exc)
         THEN LoopStep(<<ProcessingResult(url, "failed", now, "None", out.exc.msg)>>,
                       1, NoExc)
         ELSE LoopStep(<<>>, 0, out.exc)

\* production-sdk.py: result = future.result(); results.append(result);
\* completed += 1 -- nothing catches what future.result() raises
loop_body_0(url, out, now) ==
    IF out.kind = "returned"
    THEN LoopStep(<<out.value>>, 1, NoExc)
    ELSE LoopStep(<<>>, 0, out.exc)

\* production-sdk (1).py: the append and completed += 1 are in the try;
\* except APIError appends the 'failed' result and does not count it
loop_body_1(url, out, now) ==
    IF out.kind = "returned"
    THEN LoopStep(<<out.value>>, 1, NoExc)
    ELSE IF IsAPIError(out.exc)
         THEN LoopStep(<<ProcessingResult(url, "failed", now, "None", out.exc.msg)>>,
                       0, NoExc)
         ELSE LoopStep(<<>>, 0, out.exc)

\* sdk_0.py: try: results.append(future.result())
\* except Exception as e: logger.error(...) -- nothing is appended
loop_body_s0(url, out, now) ==
    IF out.kind = "returned"
    THEN LoopStep(<<out.value>>, 0, NoExc)
    ELSE IF IsException(out.exc)
         THEN LoopStep(<<>>, 0, NoExc)
         ELSE LoopStep(<<>>, 0, out.exc)

loop_body(i, url, out, now) ==
    CASE i = "production-sdk"     -> loop_body_0(url, out, now)
      [] i = "production-sdk (1)" -> loop_body_1(url, out, now)
      [] i = "production-sdk (2)" -> loop_body_2(url, out, now)
      [] i = "sdk_0"              -> loop_body_s0(url, out, now)

\* production-sdk.py, the end of the loop body, reached when future.result()
\* raised nothing: if progress_callback: progress_callback(completed, total)
ProgressCalls(cb, step, done, total) ==
    IF cb /\ step.exc = NoExc THEN << <<done, total>> >> ELSE <<>>

\* one iteration of the result loop.  as_completed hands over any future that
\* is finished and was not handed over yet; sdk_0.py iterates the futures in
\* submission order and future.result() waits for that one to finish.  After
\* the last future, or when the body raises, control leaves the with block
Collect(i) ==
    /\ pc = "collect"
    /\ i \in InState("finished") \ collected
    /\ UsesAsCompleted(impl) \/ \A j \in Items \ collected : i <= j
    /\ LET step == loop_body(impl, urls[i], fut[i].out, clock) IN
       /\ results' = results \o step.add
       /\ completed' = completed + step.inc
       /\ raised' = step.exc
       /\ notified' = notified \o ProgressCalls(progress_callback, step,
                                                completed + step.inc, Len(urls))
       /\ pc' = IF step.exc # NoExc \/ collected \cup {i} = Items
                THEN "exit" ELSE "collect"
    /\ collected' = collected \cup {i}
    /\ collect_order' = Append(collect_order, i)
    /\ UNCHANGED <<impl, endpoint, urls, max_workers, nsub, fut, clock, netcalls,
                   progress_callback, transport, rvars, svars, cvars, avars>>

\* an exit of the with block that does not wait for the workers
\* (shutdown(wait=False))
shutdown_nowait ==
    TRUE

\* ThreadPoolExecutor.__exit__ is shutdown(wait=True): it joins the worker
\* threads, which end when every submitted work item, the queued ones
\* included, has run
shutdown_wait ==
    InState("finished") = Items

\* the end of the with block: executor.shutdown(wait=True) returns when every
\* submitted work item has run; then process_batch returns results or the
\* pending exception propagates to the caller
ExecutorShutdown ==
    /\ pc = "exit"
    /\ shutdown_wait
    /\ pc' = "done"
    /\ UNCHANGED <<impl, endpoint, urls, max_workers, nsub, fut, collected, results,
                   completed, raised, clock, netcalls, pvars, hvars, rvars,
                   svars, cvars, avars>>

Next ==
    \/ \E us \in UrlLists, mw \in WorkerLimits(impl), cb \in BOOLEAN : Call(us, mw, cb)
    \/ Submit
    \/ \E i \in Items : WorkerStart(i)
    \/ \E i \in Items, o \in BatchOutcomes : ProcessDocument(i, o)
    \/ \E i \in Items, o \in BatchOutcomes : CallProcess(i, o)
    \/ \E i \in Items : CallProcessSleepOver(i)
    \/ \E i \in Items : Collect(i)
    \/ ExecutorShutdown

\* The batch with time standing still: every datetime.now() of a run reads
\* the same instant (no statement of the batch reads a timestamp back, so the
\* control flow is the same at every clock)
Spec == Init /\ [][Next]_vars

\* time passes while a batch runs
Tick ==
    /\ pc \notin {"idle", "done"}
    /\ clock < MaxClock
    /\ clock' = clock + 1
    /\ UNCHANGED <<impl, endpoint, urls, max_workers, pc, nsub, fut, collected,
                   results, completed, raised, netcalls, pvars, hvars, rvars,
                   svars, cvars, avars>>

NextTimed == Next \/ Tick

\* the batch with the clock running
SpecTimed == Init /\ [][NextTimed]_vars

\* process_batch of production-sdk (2).py on its own, with the clock running
InitBatch2 ==
    /\ Init
    /\ impl = "production-sdk (2)"

NextBatch2Timed ==
    \/ \E us \in UrlLists, mw \in 1..MaxWorkers : Call(us, mw, FALSE)
    \/ Submit
    \/ \E i \in Items : WorkerStart(i)
    \/ \E i \in Items, o \in BatchOutcomes : ProcessDocument(i, o)
    \/ \E i \in Items : Collect(i)
    \/ ExecutorShutdown
    \/ Tick

SpecBatch2Timed == InitBatch2 /\ [][NextBatch2Timed]_vars

(***************************************************************************)
(* process_batch of production-sdk (2).py with a transport whose response  *)
(* depends on the item only: transport[u] is what the POST for url u does, *)
(* whenever and on whichever worker it is made.                            *)
(***************************************************************************)
InitDet ==
    /\ impl = "production-sdk (2)"
    /\ endpoint = "https://api"
    /\ urls = <<>> /\ max_workers = 0 /\ pc = "idle" /\ nsub = 0
    /\ fut = <<>> /\ collected = {} /\ results = <<>> /\ completed = 0
    /\ raised = NoExc /\ clock = 0 /\ netcalls = 0
    /\ progress_callback = FALSE /\ notified = <<>>
    /\ collect_order = <<>>
    /\ transport \in [Urls -> BatchOutcomes]
    /\ RetryNotCalled
    /\ SchedulerUnused
    /\ ConfigUnused
    /\ AuthUnused

\* the worker's POST for item i gets the response of its url
ProcessDocumentDet(i) ==
    ProcessDocument(i, transport[urls[i]])

NextDet ==
    \/ \E us \in UrlLists, mw \in 1..MaxWorkers : Call(us, mw, FALSE)
    \/ Submit
    \/ \E i \in Items : WorkerStart(i)
    \/ \E i \in Items : ProcessDocumentDet(i)
    \/ \E i \in Items : Collect(i)
    \/ ExecutorShutdown

SpecDet == InitDet /\ [][NextDet]_vars

(***************************************************************************)
(* process_documents of sdk_0.py on its own, with fair scheduling: the     *)
(* calling thread and the pool's worker threads are scheduled by the       *)
(* operating system, and every transport call returns or raises, so a step *)
(* that can be taken is taken.                                             *)
(***************************************************************************)
InitDocuments ==
    /\ Init
    /\ impl = "sdk_0"

NextDocuments ==
    \/ \E us \in UrlLists, mw \in WorkerLimits(impl) : Call(us, mw, FALSE)
    \/ Submit
    \/ \E i \in Items : WorkerStart(i)
    \/ \E i \in Items, o \in BatchOutcomes : CallProcess(i, o)
    \/ \E i \in Items : CallProcessSleepOver(i)
    \/ \E i \in Items : Collect(i)
    \/ ExecutorShutdown

SpecDocuments == InitDocuments /\ [][NextDocuments]_vars /\ WF_vars(NextDocuments)

(***************************************************************************)
(* retry on its own: any func, any retries and delay.  func is described   *)
(* by what each of its calls does: return a value or raise.                *)
(***************************************************************************)
FuncValues == {"Success", "Other"}

FuncRaises == {"network", "http4xx", "http5xx", "undecodable", "ValueError"}

\* the exception the n-th call of func raises
FuncExc(o, n) ==
    IF o = "ValueError"
    THEN [Exc("ValueError", "Failure") EXCEPT !.call = n]
    ELSE [TransportExc(o) EXCEPT !.call = n]

CallEvent(n, ok, v, e) == [op |-> "call", n |-> n, ok |-> ok, val |-> v, exc |-> e, dur |-> 0]

SleepEvent(d) == [op |-> "sleep", n |-> 0, ok |-> FALSE, val |-> "None", exc |-> NoExc, dur |-> d]

CallEvents == SelectSeq(trace, LAMBDA ev : ev.op = "call")

SleepEvents == SelectSeq(trace, LAMBDA ev : ev.op = "sleep")

\* retry(func, retries, delay) is called
RetryCall(i, n, d) ==
    /\ rt.status = "idle"
    /\ rt' = RetryEnter(i, n, d)
    /\ trace' = <<>>
    /\ UNCHANGED <<bvars, svars, cvars, avars>>

\* one iteration: func() returns v (ok) or raises the exception of o, and the
\* except clause's sleep, if it sleeps
RetryAttempt(ok, v, o) ==
    /\ RetryCanCall(rt)
    /\ LET n  == Len(CallEvents) + 1
           e  == IF ok THEN NoExc ELSE FuncExc(o, n)
           r2 == RetryIteration(rt, ok, v, e)
       IN  /\ rt' = r2
           /\ trace' = trace \o <<CallEvent(n, ok, IF ok THEN v ELSE "None", e)>>
                             \o (IF Len(r2.sleeps) > Len(rt.sleeps)
                                 THEN <<SleepEvent(r2.sleeps[Len(r2.sleeps)])>>
                                 ELSE <<>>)
    /\ UNCHANGED <<bvars, svars, cvars, avars>>

\* sdk_0.py: the sleep after the last failed call is over: the loop is left
\* and retry raises
RetryLastSleepOver ==
    /\ RetryInLastSleep(rt)
    /\ rt' = RetrySleepOver(rt)
    /\ UNCHANGED <<trace, bvars, svars, cvars, avars>>

NextRetry ==
    \/ \E i \in RetryImpls, n \in -1..MaxRetries, d \in 1..MaxDelay : RetryCall(i, n, d)
    \/ \E v \in FuncValues : RetryAttempt(TRUE, v, "none")
    \/ \E o \in FuncRaises : RetryAttempt(FALSE, "None", o)
    \/ RetryLastSleepOver

SpecRetry == Init /\ [][NextRetry]_vars

(***************************************************************************)
(* The cron registration as a state machine: scheduler objects are made    *)
(* and schedule_job / create_cron_job are called, one call at a time, on a *)
(* crontab nothing else writes.  Every object made stays usable, with the  *)
(* jobs its own CronTab read when it was made.                             *)
(***************************************************************************)
SchedImpls == {"production-sdk", "production-sdk (2)", "sdk_0"}

InitSched ==
    /\ impl \in SchedImpls
    /\ endpoint = "https://api"
    /\ BatchIdle
    /\ RetryNotCalled
    /\ ConfigUnused
    /\ AuthUnused
    /\ crontab \in InitialCrontabs
    /\ scheduler = NoScheduler
    /\ last_call = NoCall
    /\ registered = [c \in AllComments |-> NoEntry]
    /\ any_failed = FALSE

\* what a call leaves in the history variables
Recorded(op, obj, comment, schedule, command, out) ==
    /\ last_call' = [op |-> op, obj |-> obj, comment |-> comment,
                     schedule |-> schedule, command |-> command,
                     exc |-> out.exc, before |-> crontab,
                     n |-> last_call.n + (IF op = "schedule_job" THEN 1 ELSE 0)]
    /\ registered' = IF out.exc = NoExc
                     THEN [registered EXCEPT ![comment] =
                              CronEntry(schedule, command, comment)]
                     ELSE registered
    /\ any_failed' = (any_failed \/ out.exc # NoExc)

\* DocumentProcessingScheduler(script_path): self.cron = CronTab(user=True)
\* reads the user's crontab into a further object, the earlier objects stay
\* as they are; when the crontab cannot be read no object is made and the
\* constructor raises
NewScheduler(script_path, readable) ==
    /\ impl \in {"production-sdk", "production-sdk (2)"}
    /\ Len(scheduler) < MaxSchedulers
    /\ IF readable
       THEN /\ scheduler' = Append(scheduler, SchedulerObject(script_path, crontab))
            /\ last_call' = [NoCall EXCEPT !.op = "new_scheduler",
                                           !.obj = Len(scheduler) + 1,
                                           !.before = crontab,
                                           !.n = last_call.n]
       ELSE /\ scheduler' = scheduler
            /\ last_call' = [NoCall EXCEPT
                                !.op = "new_scheduler",
                                !.exc = scheduler_init_error(impl, CronTabUnreadable),
                                !.before = crontab,
                                !.n = last_call.n]
    /\ UNCHANGED <<bvars, rvars, cvars, avars, crontab, registered, any_failed>>

\* s.schedule_job(schedule, comment) on the scheduler object s: the whole
\* call; write() puts the object's jobs in the place of the crontab
ScheduleJob(s, schedule, comment) ==
    /\ impl \in {"production-sdk", "production-sdk (2)"}
    /\ s \in 1..Len(scheduler)
    /\ last_call.n < MaxCalls
    /\ LET out == schedule_job(impl, scheduler[s].script_path, scheduler[s].cron,
                               schedule, comment)
       IN  /\ scheduler' = [scheduler EXCEPT
                              ![s].cron = out.cron,
                              ![s].failed = IF out.exc # NoExc
                                            THEN @ \cup {comment}
                                            ELSE @ \ {comment}]
           /\ crontab' = IF out.written THEN out.cron ELSE crontab
           /\ Recorded("schedule_job", s, comment, schedule,
                       Command(scheduler[s].script_path), out)
    /\ UNCHANGED <<bvars, rvars, cvars, avars>>

\* create_cron_job(script_path, schedule): the whole call, its CronTab read
\* from the crontab at the start; nothing catches what CronTab(user=True)
\* raises when the crontab cannot be read
CreateCronJob(script_path, schedule, readable) ==
    /\ impl = "sdk_0"
    /\ Len(crontab) < MaxEntries
    /\ LET out == IF readable
                  THEN create_cron_job(crontab, script_path, schedule)
                  ELSE Registration(crontab, FALSE, CronTabUnreadable)
       IN  /\ crontab' = IF out.written THEN out.cron ELSE crontab
           /\ Recorded("create_cron_job", 0, Sdk0Comment, schedule,
                       Command(script_path), out)
    /\ UNCHANGED <<bvars, rvars, cvars, avars, scheduler>>

NextSched ==
    \/ \E sp \in ScriptPaths, readable \in BOOLEAN : NewScheduler(sp, readable)
    \/ \E s \in 1..MaxSchedulers, sc \in Schedules \cup RejectedSchedules,
          c \in Comments : ScheduleJob(s, sc, c)
    \/ \E sp \in ScriptPaths, sc \in Schedules \cup RejectedSchedules,
          readable \in BOOLEAN : CreateCronJob(sp, sc, readable)

SpecSched == InitSched /\ [][NextSched]_vars

(***************************************************************************)
(* Config(config_path) on every file and environment.                      *)
(***************************************************************************)
InitConfig ==
    /\ impl \in Impls
    /\ endpoint = "https://api"
    /\ BatchIdle
    /\ RetryNotCalled
    /\ SchedulerUnused
    /\ AuthUnused
    /\ cfgenv \in [module : ConfigModules, config_path : ConfigPaths,
                   file : FileStates, env : Environments]
    /\ config = NotConstructed

\* Config(config_path) is called: the object, or the exception it raises
Construct ==
    /\ config.status = "none"
    /\ config' = Config_init(cfgenv.module, cfgenv.file, cfgenv.env)
    /\ UNCHANGED <<bvars, rvars, svars, avars, cfgenv>>

NextConfig == Construct

SpecConfig == InitConfig /\ [][NextConfig]_vars

(***************************************************************************)
(* authenticate() on every key path and key file.                          *)
(***************************************************************************)
InitAuth ==
    /\ impl \in Impls
    /\ endpoint = "https://api"
    /\ BatchIdle
    /\ RetryNotCalled
    /\ SchedulerUnused
    /\ ConfigUnused
    /\ authenv \in [module : AuthModules, key_path : KeyPathValues, file : KeyFileStates]
    /\ auth = NotAuthenticated

\* authenticate() is called: what it returns or raises
Authenticate ==
    /\ auth.status = "none"
    /\ auth' = authenticate(authenv.module, authenv.key_path, authenv.file)
    /\ UNCHANGED <<bvars, rvars, svars, cvars, authenv>>

NextAuth == Authenticate

SpecAuth == InitAuth /\ [][NextAuth]_vars

(***************************************************************************)
(* Properties.                                                             *)
(***************************************************************************)
Perms(n) == {p \in [1..n -> 1..n] : \A a, b \in 1..n : p[a] = p[b] => a = b}

WorkerReturned(i) == fut[i].state = "finished" /\ fut[i].out.kind = "returned"

WorkerRaised(i) == fut[i].state = "finished" /\ fut[i].out.kind = "raised"

\* r is the entry of item i: the worker's own result if its call returned, a
\* 'failed' entry for its url carrying the exception's text if the call raised
IsResultOf(r, i) ==
    /\ WorkerReturned(i) => r = fut[i].out.value
    /\ WorkerRaised(i) => /\ r.url = urls[i]
                          /\ r.status = "failed"
                          /\ r.error = fut[i].out.exc.msg
                          /\ r.error \notin {"None", ""}

\* results holds exactly one entry per position of urls
OnePerItem ==
    /\ Len(results) = Len(urls)
    /\ \E p \in Perms(Len(urls)) : \A i \in Items : IsResultOf(results[p[i]], i)

BatchReturned(i) == impl = i /\ pc = "done"

\* C1: production-sdk (2).py: process_batch on a non-empty list of N urls
\* returns (raises nothing) a list of exactly N results, one for each position
\* of the list, whatever each process_document call returned or raised and in
\* whatever order the workers ran.
C1_BatchOnePerItem ==
    (BatchReturned("production-sdk (2)") /\ Len(urls) > 0)
        => (raised = NoExc /\ OnePerItem)

\* a batch of three that returned with one completed item, one item whose
\* call raised APIError and one whose call raised AttributeError, and whose
\* first result is not the first url's
C1_Witness ==
    /\ BatchReturned("production-sdk (2)")
    /\ Len(urls) = 3
    /\ raised = NoExc
    /\ \E i, j, k \in Items :
          /\ WorkerReturned(i)
          /\ WorkerRaised(j) /\ fut[j].out.exc.type = "APIError"
          /\ WorkerRaised(k) /\ fut[k].out.exc.type = "AttributeError"
    /\ results[1].url = "doc2"

\* C2: production-sdk (2).py: process_batch on an empty list raises
\* ValidationError, and nothing was submitted, no worker started and no
\* transport call made when it does.
C2_EmptyBatchRejected ==
    (impl = "production-sdk (2)" /\ pc # "idle" /\ Len(urls) = 0)
        => /\ pc = "done"
           /\ raised.type = "ValidationError"
           /\ nsub = 0
           /\ netcalls = 0
           /\ results = <<>>

C2_Witness ==
    /\ BatchReturned("production-sdk (2)")
    /\ urls = <<>>
    /\ raised.type = "ValidationError"
    /\ netcalls = 0

\* C3: production-sdk.py: process_batch never raises because of an item's
\* failure: it returns a list in which the failing item is 'failed' and every
\* other item has its own outcome.
C3_BatchNeverRaises ==
    (BatchReturned("production-sdk") /\ Len(urls) > 0)
        => (raised = NoExc /\ OnePerItem)

\* C4: production-sdk (1).py: process_batch over N urls returns N results:
\* every item whose call raised (whatever the exception) appears once as
\* 'failed' with a non-empty error, every item whose call returned appears
\* once with the returned result.
C4_BatchReportsEveryFailure ==
    BatchReturned("production-sdk (1)") => (raised = NoExc /\ OnePerItem)

\* C5: sdk_0.py: process_documents(urls) returns a list as long as urls,
\* whatever the call_process invocations did (here with the endpoint
\* configured, so that a failing call is one that failed after all retries).
C5_ProcessDocumentsOnePerUrl ==
    (BatchReturned("sdk_0") /\ endpoint # "")
        => (raised = NoExc /\ Len(results) = Len(urls))

\* C6: process_batch(urls, max_workers) of the production files: at every
\* instant at most max_workers process_document calls are outstanding.
C6_AtMostMaxWorkersOutstanding ==
    (impl # "sdk_0" /\ pc # "idle")
        => Cardinality(InState("running")) <= max_workers

\* max_workers calls are outstanding while another url waits in the queue, in
\* a batch of at least 2 * max_workers urls
C6_Witness ==
    /\ impl \in {"production-sdk", "production-sdk (2)"}
    /\ Len(urls) >= 2 * max_workers
    /\ Cardinality(InState("running")) = max_workers
    /\ InState("queued") # {}

(***************************************************************************)
(* Properties of retry.                                                    *)
(***************************************************************************)
AllCallsFailed == \A j \in 1..Len(CallEvents) : ~CallEvents[j].ok

\* C7: retry (forge/utils.py and sdk_0.py) with a func that fails on its first
\* k calls, k < retries, and succeeds on call k+1: after k failures retry goes
\* on to call func again, and the successful call k+1 is the last call made:
\* retry returns that call's value, having called func k+1 times.
C7_RetryReturnsFirstSuccess ==
    rt.status # "idle" =>
       /\ (AllCallsFailed /\ Len(CallEvents) < rt.retries) => rt.status = "running"
       /\ \A j \in 1..Len(CallEvents) :
             (CallEvents[j].ok /\ j <= rt.retries) =>
                /\ \A h \in 1..(j - 1) : ~CallEvents[h].ok
                /\ j = Len(CallEvents)
                /\ rt.status = "returned"
                /\ rt.value = CallEvents[j].val
                /\ rt.calls = j

\* retry returned the value of the third call after two failed calls
C7_Witness ==
    /\ rt.status = "returned"
    /\ rt.retries = 3
    /\ Len(CallEvents) = 3
    /\ ~CallEvents[1].ok /\ ~CallEvents[2].ok
    /\ CallEvents[3].ok /\ rt.value = "Other"

\* C8: retry (forge/utils.py and sdk_0.py) with retries >= 1 and a func that
\* fails on every call: func is called exactly retries times, never more, and
\* then retry fails (in sdk_0.py after the sleep that follows the last call).
C8_RetryStopsAtBudget ==
    (rt.status # "idle" /\ rt.retries >= 1 /\ AllCallsFailed) =>
       /\ Len(CallEvents) <= rt.retries
       /\ rt.calls = Len(CallEvents)
       /\ Len(CallEvents) < rt.retries => rt.status = "running"
       /\ Len(CallEvents) = rt.retries =>
             \/ rt.status = "raised"
             \/ rt.impl = "sdk_0" /\ RetryInLastSleep(rt) /\ ~RetryCanCall(rt)
       /\ rt.status # "running" =>
             (rt.status = "raised" /\ Len(CallEvents) = rt.retries)

C8_Witness ==
    /\ rt.impl = "sdk_0"
    /\ rt.status = "raised"
    /\ rt.retries = 3
    /\ AllCallsFailed
    /\ Len(CallEvents) = 3

\* C9: forge/utils.py: when every attempt fails, retry fails with the very
\* exception the last attempt raised.
C9_RetryRaisesLastFailure ==
    (rt.impl = "forge/utils" /\ rt.status = "raised") =>
       /\ Len(CallEvents) >= 1
       /\ AllCallsFailed
       /\ rt.exc = CallEvents[Len(CallEvents)].exc
       /\ rt.exc.call = Len(CallEvents)

\* three attempts failed, the first with an HTTPError, the last with a
\* ValueError, and the ValueError of the third call is what retry raised
C9_Witness ==
    /\ rt.impl = "forge/utils"
    /\ rt.status = "raised"
    /\ Len(CallEvents) = 3
    /\ CallEvents[1].exc.type = "HTTPError"
    /\ rt.exc.type = "ValueError"
    /\ rt.exc.call = 3

\* C10: forge/utils.py, retries = n >= 1, func always failing: the calls and
\* sleeps alternate, starting and ending with a call: n - 1 sleeps in all,
\* none before the first attempt and none after the last; the first sleep
\* lasts delay and every later one twice the one before it.
C10_RetryBackoffBetweenAttempts ==
    (rt.impl = "forge/utils" /\ rt.status # "idle" /\ rt.retries >= 1 /\ AllCallsFailed) =>
       /\ \A j \in 1..Len(trace) :
             IF j % 2 = 1
             THEN trace[j].op = "call"
             ELSE /\ trace[j].op = "sleep"
                  /\ trace[j].dur = IF j = 2 THEN rt.delay ELSE 2 * trace[j - 2].dur
       /\ rt.status = "running" => Len(trace) % 2 = 0 /\ Len(SleepEvents) < rt.retries
       /\ rt.status = "raised" =>
             /\ trace[Len(trace)].op = "call"
             /\ Len(SleepEvents) = rt.retries - 1
             /\ Len(CallEvents) = rt.retries
       /\ rt.status \in {"running", "raised"}

\* three failed attempts with delay 2: the sleeps were 2 and 4
C10_Witness ==
    /\ rt.impl = "forge/utils"
    /\ rt.status = "raised"
    /\ rt.retries = 3
    /\ rt.delay = 2
    /\ Len(SleepEvents) = 2
    /\ SleepEvents[1].dur = 2 /\ SleepEvents[2].dur = 4

\* C11: sdk_0.py, retries = n >= 1, func failing on all n attempts: retry
\* sleeps only between attempts: there are exactly n - 1 sleeps, and the
\* failure is raised directly after the n-th failed call, nothing is slept
\* after it.
C11_Sdk0SleepsOnlyBetweenAttempts ==
    (rt.impl = "sdk_0" /\ rt.status = "raised" /\ rt.retries >= 1 /\ AllCallsFailed) =>
       /\ Len(CallEvents) = rt.retries
       /\ Len(SleepEvents) = rt.retries - 1
       /\ trace[Len(trace)].op = "call"

\* the failures the specification classifies as not retryable: an HTTP 4xx
\* status and a response that cannot be decoded
NonRetryable(e) ==
    \/ e.type = "HTTPError" /\ e.msg = "4xx Client Error"
    \/ e.type = "JSONDecodeError"

\* C12: retry of forge/utils.py, and call_process of sdk_0.py, which is
\* retry(make_request) with the default retries and delay: when the first
\* call fails with an HTTP 4xx status or an undecodable response, that call is
\* the only one made, nothing is slept and retry has failed.
C12_NonRetryableFailsAtOnce ==
    (/\ rt.status # "idle"
     /\ rt.impl = "sdk_0" => (rt.retries = DefaultRetries /\ rt.delay = DefaultDelay)
     /\ Len(CallEvents) >= 1
     /\ ~CallEvents[1].ok
     /\ NonRetryable(CallEvents[1].exc)) =>
       /\ rt.status = "raised"
       /\ Len(CallEvents) = 1
       /\ Len(SleepEvents) = 0

(***************************************************************************)
(* Properties of process_document's retrying and of the progress reports.  *)
(***************************************************************************)
\* the item's process_document ended on a transport call that failed
EndedOnTransportFailure(i) ==
    /\ fut[i].state = "finished"
    /\ \/ fut[i].out.kind = "raised" /\ IsRequestException(fut[i].out.exc)
       \/ /\ fut[i].out.kind = "returned"
          /\ fut[i].out.value.status = "failed"
          /\ fut[i].out.value.error # "None"

\* C13: production-sdk.py: process_document posts again after a transport
\* call that failed with a RequestException, up to max_tries = 3 POSTs: an
\* item is never ended by a failed transport call before its third POST (so a
\* transport failing k < 3 times and then succeeding ends the item with the
\* success of POST k+1), and one ended by a failed call made exactly 3 POSTs.
C13_ProcessDocumentRetriesTransport ==
    \A i \in Items :
       (impl = "production-sdk" /\ EndedOnTransportFailure(i))
           => fut[i].tries = max_tries

\* C14: production-sdk.py: process_batch called with a progress_callback and
\* N urls has, when it is over, invoked the callback exactly N times, with
\* (1, N), (2, N), ..., (N, N) in this order.
C14_ProgressCallbackCountsToN ==
    (BatchReturned("production-sdk") /\ progress_callback)
        => notified = [c \in 1..Len(urls) |-> <<c, Len(urls)>>]

\* C15: production-sdk (1).py: in the result loop and after it the completed
\* counter equals the number of outcomes appended to results, failed ones
\* included, and it equals len(urls) when process_batch returns.
C15_CompletedCountsEveryOutcome ==
    (impl = "production-sdk (1)" /\ pc \in {"collect", "exit", "done"}) =>
       /\ completed = Len(results)
       /\ (pc = "done" /\ raised = NoExc) => completed = Len(urls)

(***************************************************************************)
(* Properties of the cron registration.                                    *)
(***************************************************************************)
EntriesOf(cron, comment) == SelectSeq(cron, LAMBDA job : job.comment = comment)

OtherEntries(cron, comment) == SelectSeq(cron, LAMBDA job : job.comment # comment)

\* C16: schedule_job of production-sdk.py and production-sdk (2).py: after
\* any sequence of calls that all returned, on whichever scheduler objects
\* they were made, the crontab holds, for every
\* comment registered, exactly one entry, with the schedule and command of the
\* last call for that comment; and the last call left the entries of all
\* other comments as they were, in their order.
C16_ScheduleJobReplacesPerComment ==
    (impl \in {"production-sdk", "production-sdk (2)"} /\ ~any_failed) =>
       /\ \A c \in Comments :
             registered[c] # NoEntry => EntriesOf(crontab, c) = <<registered[c]>>
       /\ last_call.op = "schedule_job" =>
             OtherEntries(crontab, last_call.comment)
                 = OtherEntries(last_call.before, last_call.comment)

\* C17: sdk_0.py: after any number (>= 1) of create_cron_job calls that
\* returned, the crontab holds exactly one entry with the comment 'Process
\* Documents Cron Job', and it carries the schedule of the last call.
C17_CreateCronJobKeepsOneEntry ==
    (impl = "sdk_0" /\ last_call.op = "create_cron_job" /\ ~any_failed) =>
       /\ Len(EntriesOf(crontab, Sdk0Comment)) = 1
       /\ EntriesOf(crontab, Sdk0Comment)[1].schedule = last_call.schedule

\* C18: production-sdk (2).py: a schedule_job call whose cadence setall
\* rejects raises SchedulingError, and the crontab after the call is the
\* crontab before the call.
C18_RejectedCadenceLeavesStore ==
    (/\ impl = "production-sdk (2)"
     /\ last_call.op = "schedule_job"
     /\ ~setall_accepts(last_call.schedule)) =>
       /\ last_call.exc.type = "SchedulingError"
       /\ crontab = last_call.before

\* a rejected call for a comment that has a registration an earlier call
\* made: the registration is still in the crontab, while the scheduler
\* object's own jobs have lost it
C18_Witness ==
    /\ impl = "production-sdk (2)"
    /\ last_call.op = "schedule_job"
    /\ last_call.schedule = <<"invalid_schedule">>
    /\ last_call.exc.type = "SchedulingError"
    /\ registered[last_call.comment] # NoEntry
    /\ EntriesOf(crontab, last_call.comment) = <<registered[last_call.comment]>>
    /\ EntriesOf(scheduler[last_call.obj].cron, last_call.comment)
          # EntriesOf(crontab, last_call.comment)

(***************************************************************************)
(* Properties of Config.                                                   *)
(***************************************************************************)
\* the configuration source that is loaded (the file if it exists, else the
\* environment) does not give both required keys a non-empty value
SourceLacksRequired ==
    LET source == IF cfgenv.file.kind = "missing" THEN cfgenv.env ELSE cfgenv.file IN
    \/ source.kind \in {"malformed", "empty", "scalar", "list"}
    \/ source.kind = "dict" /\ (IsMissing(source.API_ENDPOINT) \/ IsMissing(source.API_KEY))

\* C19: Config of forge/config.py and production-sdk.py: whenever the loaded
\* source lacks API_ENDPOINT or API_KEY (absent or empty; a file that is
\* empty or holds no mapping included, and the environment with a variable
\* unset), the construction raises ConfigurationError and nothing else.
C19_MissingKeysRaiseConfigurationError ==
    (/\ config.status # "none"
     /\ cfgenv.module \in {"forge/config", "production-sdk"}
     /\ SourceLacksRequired) =>
       /\ config.status = "raised"
       /\ config.exc.type = "ConfigurationError"

\* C20: Config of forge/config.py with a config_path that names a file that
\* does not exist raises ConfigurationError, whatever the environment holds.
C20_MissingFileRaisesConfigurationError ==
    (/\ config.status # "none"
     /\ cfgenv.module = "forge/config"
     /\ cfgenv.config_path # "None"
     /\ cfgenv.file.kind = "missing") =>
       /\ config.status = "raised"
       /\ config.exc.type = "ConfigurationError"

(***************************************************************************)
(* Properties of authenticate.                                             *)
(***************************************************************************)
\* GCP_JSON_KEY_PATH is set, names an existing file, and the file parses as
\* JSON
KeyFileUsable ==
    /\ authenv.key_path = "set"
    /\ authenv.file \in {"json_dict", "json_list", "json_scalar"}

\* C21: forge/auth.py: authenticate returns, and returns the parsed content
\* of the key file, exactly when GCP_JSON_KEY_PATH is set and names an
\* existing file that parses as JSON; in every other case it raises
\* AuthenticationError; the file is opened at most once.
C21_AuthenticateReturnsParsedKey ==
    (auth.status # "none" /\ authenv.module = "forge/auth") =>
       /\ KeyFileUsable =>
             /\ auth.status = "returned"
             /\ authenv.file = "json_dict" => auth.value = "dict"
       /\ ~KeyFileUsable =>
             /\ auth.status = "raised"
             /\ auth.exc.type = "AuthenticationError"
       /\ auth.opens <= 1


\* C22: production-sdk.py and production-sdk (2).py: when process_batch has
\* returned or raised, every submitted item's worker has finished: no
\* process_document call is still queued or running
C22_NoWorkerOutlivesProcessBatch ==
    (impl \in {"production-sdk", "production-sdk (2)"} /\ pc = "done") =>
        \A i \in 1..Len(urls) : fut[i].state = "finished" /\ fut[i].out # Pending

\* production-sdk.py left the result loop on the first outcome, an exception,
\* with three items submitted, and has raised it to the caller
C22_Witness ==
    /\ BatchReturned("production-sdk")
    /\ Len(urls) = 3
    /\ raised # NoExc
    /\ Cardinality(collected) = 1


\* a step that writes results or completed is a step of the result loop that
\* appends one outcome and counts it; a step that changes a future writes
\* neither
CollectorWrites ==
    /\ (results' # results \/ completed' # completed) =>
          /\ pc = "collect"
          /\ fut' = fut
          /\ Cardinality(collected') = Cardinality(collected) + 1
          /\ Len(results') = Len(results) + 1
          /\ results' = Append(results, results'[Len(results')])
          /\ completed' = completed + 1
    /\ fut' # fut => (results' = results /\ completed' = completed)

\* C23: production-sdk.py and production-sdk (2).py: the results list and
\* the completed counter change only in a step of the calling thread's
\* result loop: such a step appends one outcome and counts one, and a step of a worker (one that changes a future) leaves both as
\* they were, so no write of the collector is lost to a concurrent one
C23_OnlyCollectorWritesResults ==
    [][(impl \in {"production-sdk", "production-sdk (2)"}) => CollectorWrites]_vars

\* production-sdk (2).py: the collector has written an outcome while two
\* workers are still running process_document
C23_Witness ==
    /\ impl = "production-sdk (2)"
    /\ pc = "collect"
    /\ Len(results) >= 1
    /\ completed >= 1
    /\ Cardinality(InState("running")) = 2


\* C24: sdk_0.py: when process_documents has ended on a list of N urls, the
\* transport was called at least N and at most N * retries (3) times
C24_TransportCallsBetweenNAnd3N ==
    (impl = "sdk_0" /\ pc = "done") =>
        /\ netcalls >= Len(urls)
        /\ netcalls <= Len(urls) * DefaultRetries

\* C25: production-sdk (2).py: every outcome's processed_at, of a failed
\* item as of a succeeded one, is read when that item's own processing
\* finished: if item a finished before item b, then a's processed_at is not
\* later than b's
C25_ProcessedAtFollowsCompletion ==
    impl = "production-sdk (2)" =>
        \A k1, k2 \in 1..Len(results) :
            fut[collect_order[k1]].done_at < fut[collect_order[k2]].done_at =>
                results[k1].processed_at <= results[k2].processed_at


\* C26: production-sdk (2).py: every ProcessingResult that process_batch
\* returns has error set exactly when its status is 'failed', and has
\* metadata set only when its status is not 'failed'
C26_ErrorIffFailed ==
    (BatchReturned("production-sdk (2)") /\ raised = NoExc) =>
        \A k \in 1..Len(results) :
            /\ (results[k].error # "None") <=> (results[k].status = "failed")
            /\ (results[k].metadata # "None") => (results[k].status # "failed")


\* the status process_batch reports for an item whose POST does o: the
\* body's status, 'completed' when the body has none, and 'failed' when the
\* request or the reading of the body fails
ExpectedStatus(o) ==
    CASE o = "ok_completed" -> "completed"
      [] o = "ok_nostatus"  -> "completed"
      [] OTHER              -> "failed"

\* how often the pair (u, st) occurs in a list of results
CountPair(rs, u, st) ==
    Cardinality({k \in 1..Len(rs) : rs[k].url = u /\ rs[k].status = st})

\* C27: production-sdk (2).py, with a transport whose response depends on
\* the item only: the multiset of (url, status) pairs process_batch returns
\* is a function of the urls and the transport alone, the same for every
\* interleaving and every max_workers; only the order may differ
C27_OutcomesIndependentOfInterleaving ==
    BatchReturned("production-sdk (2)") /\ Len(urls) > 0 =>
        /\ raised = NoExc
        /\ Len(results) = Len(urls)
        /\ \A u \in Urls \cup {""}, st \in {"completed", "failed"} :
              CountPair(results, u, st) =
                  Cardinality({i \in 1..Len(urls) :
                                 urls[i] = u /\ ExpectedStatus(transport[u]) = st})

\* two workers; three items, of which one fails; the outcomes were collected
\* in another order than the urls were given
C27_Witness ==
    /\ BatchReturned("production-sdk (2)")
    /\ max_workers = 2
    /\ Len(urls) = 3
    /\ collect_order # <<1, 2, 3>>
    /\ \E k \in 1..3 : results[k].status = "failed"
    /\ \E k \in 1..3 : results[k].status = "completed"
    /\ \E k \in 1..3 : results[k].url # urls[k]


\* C28: forge/utils.py: retry returns normally only with a value that a call
\* of func returned, for every retries, 0 and negative ones included: it
\* never returns without having called func
C28_RetryReturnsOnlyFuncValue ==
    (rt.impl = "forge/utils" /\ rt.status = "returned") =>
        /\ Len(CallEvents) >= 1
        /\ \E j \in 1..Len(CallEvents) :
              CallEvents[j].ok /\ CallEvents[j].val = rt.value


\* C29: production-sdk (2).py: after a schedule_job call on a scheduler
\* object failed with SchedulingError, a later successful schedule_job on the
\* same object for a different comment changes the stored crontab only for
\* that other comment: the entries under the failed call's comment (and
\* every other comment) are in the store as before, and no entry the failed
\* call created is written
C29_FailedCallLeavesNoTrace ==
    (/\ impl = "production-sdk (2)"
     /\ last_call.op = "schedule_job"
     /\ last_call.exc = NoExc
     /\ scheduler[last_call.obj].failed \ {last_call.comment} # {}) =>
        OtherEntries(crontab, last_call.comment) =
            OtherEntries(last_call.before, last_call.comment)

=============================================================================
